---- MODULE Spec2Model ----
(***************************************************************************)
(* otp-kit: the Random OTP generator (src/src/algorithms/random.algorithm.ts*)
(* with src/src/utils/getChar.ts) and the counter-based HOTP generator     *)
(* (src/src/algorithms/hotp.algorithm.ts).                                 *)
(*                                                                         *)
(* JavaScript values are modelled as tagged records: a property that is    *)
(* missing from an object (Absent), a property or argument whose value is  *)
(* undefined (Undefined), and a value (Val(v)).  Strings are sequences of  *)
(* UTF-16 code units (integers), the way JavaScript indexes them.          *)
(***************************************************************************)
EXTENDS Integers, Sequences, FiniteSets, TLC

VARIABLES
  random,    \* the variable bound by `new RandomOtpAlgorithm(options)`
  hotp,      \* the variables bound by `new HotpOtpAlgorithm(opts)`, one per id
  out,       \* per HOTP instance: the arguments and result of its last generate(),
             \* and whether some generate() call on it had a counter override
  last,      \* the last call made and what it returned or threw
  now,       \* Date.now()
  hmacSeed   \* which keyed-hash function crypto.createHmac computes

vars == <<random, hotp, out, last, now, hmacSeed>>

-----------------------------------------------------------------------------
(* JavaScript values *)

Absent == [tag |-> "absent"]
Undefined == [tag |-> "undefined"]
Val(v) == [tag |-> "value", v |-> v]

IsVal(x) == x.tag = "value"

\* `!x` is false: a number that is not 0, a string that is not empty.
TruthyNumber(x) == IsVal(x) /\ x.v # 0
TruthyString(x) == IsVal(x) /\ Len(x.v) > 0

\* { ...defaults, ...options }: a key of options replaces the default even
\* when its value is undefined; a key options does not have keeps it.
Spread(default, given) == IF given.tag = "absent" THEN default ELSE given

Returned(v) == [threw |-> FALSE, value |-> v]
\* throw new <name>(...)
Threw(name) == [threw |-> TRUE, error |-> name]

-----------------------------------------------------------------------------
(* Bounds of the model *)

MaxLength == 1        \* largest `length` option tried
MaxNow == 2           \* the clock runs from 1 to MaxNow
MaxExpiresAt == 1     \* `expiresAt` ranges over 0..MaxExpiresAt
MaxDigitsInput == 11  \* `digits` ranges over -1..MaxDigitsInput

\* The bytes crypto.randomBytes is taken to return (of 0..255).
RandomByteValues == {61, 255}

-----------------------------------------------------------------------------
(* getChars: src/src/utils/getChar.ts *)

Digits == [i \in 1..10 |-> 47 + i]          \* "0123456789"
LowerCase == [i \in 1..26 |-> 96 + i]       \* "a".."z"
UpperCase == [i \in 1..26 |-> 64 + i]       \* "A".."Z"
HexLetters == [i \in 1..6 |-> 96 + i]       \* "abcdef"

getChars(charset, customChars) ==
  IF ~IsVal(charset) THEN Threw("Error")
  ELSE CASE charset.v = "numeric" -> Returned(Digits)
         [] charset.v = "alphabetic" -> Returned(LowerCase \o UpperCase)
         [] charset.v = "alphanumeric" -> Returned(Digits \o LowerCase \o UpperCase)
         [] charset.v = "hex" -> Returned(Digits \o HexLetters)
         [] charset.v = "custom" ->
              IF ~TruthyString(customChars) \/ Len(customChars.v) = 0
              THEN Threw("Error")
              ELSE Returned(customChars.v)
         [] OTHER -> Threw("Error")

-----------------------------------------------------------------------------
(* RandomOtpAlgorithm: src/src/algorithms/random.algorithm.ts *)

DEFAULT_LENGTH == 6

RandomDefaults ==
  [length |-> Val(DEFAULT_LENGTH), charset |-> Val("numeric"), customCharset |-> Undefined]

MergeOptions(options) ==
  [length |-> Spread(RandomDefaults.length, options.length),
   charset |-> Spread(RandomDefaults.charset, options.charset),
   customCharset |-> Spread(RandomDefaults.customCharset, options.customCharset)]

IsCustom(charset) == IsVal(charset) /\ charset.v = "custom"

\* new RandomOtpAlgorithm(options): the instance, or the error thrown.
RandomConstructor(options) ==
  LET o == MergeOptions(options) IN
  IF IsCustom(o.charset) /\ ~TruthyString(o.customCharset)
  THEN Threw("Error")
  ELSE IF IsVal(o.length) /\ o.length.v <= 0
  THEN Threw("Error")
  ELSE IF ~IsCustom(o.charset) /\ TruthyString(o.customCharset)
  THEN Threw("Error")
  ELSE Returned([options |-> o])

\* (a generate() that ignores the length option)
RandomByteCountDefaultOnly(inst) == DEFAULT_LENGTH

\* this.options.length || DEFAULT_LENGTH
RandomByteCount(inst) ==
  IF TruthyNumber(inst.options.length) THEN inst.options.length.v ELSE DEFAULT_LENGTH

\* The loop of generate(): one symbol per random byte.
RandomSymbols(chars, randomBytes) ==
  [i \in 1..Len(randomBytes) |-> chars[(randomBytes[i] % Len(chars)) + 1]]

\* generate(), given the bytes crypto.randomBytes returns.
RandomGenerateResult(inst, randomBytes) ==
  LET chars == getChars(inst.options.charset, inst.options.customCharset) IN
  IF chars.threw THEN chars
  ELSE Returned(RandomSymbols(chars.value, randomBytes))

\* Buffer.from(string): the UTF-8 bytes of a string of UTF-16 code units.  A
\* surrogate pair is one code point of four bytes; a surrogate without its
\* partner is written as U+FFFD (EF BF BD).
IsHighSurrogate(c) == c >= 55296 /\ c <= 56319
IsLowSurrogate(c) == c >= 56320 /\ c <= 57343

Utf8OfCodePoint(cp) ==
  IF cp < 128 THEN <<cp>>
  ELSE IF cp < 2048 THEN <<192 + (cp \div 64), 128 + (cp % 64)>>
  ELSE IF cp < 65536
  THEN <<224 + (cp \div 4096), 128 + ((cp \div 64) % 64), 128 + (cp % 64)>>
  ELSE <<240 + (cp \div 262144), 128 + ((cp \div 4096) % 64),
         128 + ((cp \div 64) % 64), 128 + (cp % 64)>>

RECURSIVE BufferFrom(_)
BufferFrom(s) ==
  IF Len(s) = 0 THEN <<>>
  ELSE IF IsHighSurrogate(s[1]) /\ Len(s) >= 2 /\ IsLowSurrogate(s[2])
  THEN Utf8OfCodePoint(65536 + (s[1] - 55296) * 1024 + (s[2] - 56320))
         \o BufferFrom(SubSeq(s, 3, Len(s)))
  ELSE IF IsHighSurrogate(s[1]) \/ IsLowSurrogate(s[1])
  THEN <<239, 191, 189>> \o BufferFrom(Tail(s))
  ELSE Utf8OfCodePoint(s[1]) \o BufferFrom(Tail(s))

\* crypto.timingSafeEqual: throws unless the buffers have the same byte length.
timingSafeEqual(a, b) ==
  IF Len(a) # Len(b) THEN Threw("RangeError") ELSE Returned(a = b)

\* verify(userOtp, expectedOtp, opts) at clock value `clock`; expiresAt is
\* opts?.expiresAt (Absent when opts or the key is missing).
RandomVerifyResult(userOtp, expectedOtp, expiresAt, clock) ==
  IF ~TruthyString(userOtp) \/ ~TruthyString(expectedOtp) THEN Returned(FALSE)
  ELSE IF TruthyNumber(expiresAt) /\ clock > expiresAt.v THEN Returned(FALSE)
  ELSE LET eq == timingSafeEqual(BufferFrom(userOtp.v), BufferFrom(expectedOtp.v)) IN
       IF eq.threw THEN Returned(FALSE) ELSE eq

-----------------------------------------------------------------------------
(* HotpOtpAlgorithm: src/src/algorithms/hotp.algorithm.ts *)

\* An integer of any size (a JavaScript number holding an integer, or a
\* bigint): its sign and its magnitude in 16-bit words, least significant
\* first, without leading zero words.
Big(neg, words) == [neg |-> neg, words |-> words]

BigMinusOne == Big(TRUE, <<1>>)
BigZero == Big(FALSE, <<>>)
Big258 == Big(FALSE, <<258>>)                               \* 0x0102
BigMaxUInt64 == Big(FALSE, <<65535, 65535, 65535, 65535>>)  \* 2^64 - 1
BigTwoTo64 == Big(FALSE, <<0, 0, 0, 0, 1>>)                 \* 2^64

\* BigInt(x): a TypeError for undefined.
BigInt(x) == IF IsVal(x) THEN Returned(x.v) ELSE Threw("TypeError")

WordOf(big, k) == IF k <= Len(big.words) THEN big.words[k] ELSE 0

\* buf.writeBigUInt64BE(value) on Buffer.alloc(8): the 8 bytes, most
\* significant first; a RangeError unless 0 <= value < 2^64.
writeBigUInt64BE(value) ==
  IF value.neg \/ Len(value.words) > 4 THEN Threw("RangeError")
  ELSE Returned([i \in 1..8 |->
         LET w == WordOf(value, 4 - ((i - 1) \div 2)) IN
         IF i % 2 = 1 THEN w \div 256 ELSE w % 256])

\* base32Decode(input, "RFC4648") of the base32-decode package: trailing "="
\* padding is dropped, every other character must be one of A-Z 2-7 (else it
\* throws), and each full group of 8 bits is one output byte.
Base32Index(c) ==
  IF c >= 65 /\ c <= 90 THEN c - 65
  ELSE IF c >= 50 /\ c <= 55 THEN c - 50 + 26
  ELSE -1

RECURSIVE StripPadding(_)
StripPadding(s) ==
  IF Len(s) > 0 /\ s[Len(s)] = 61 THEN StripPadding(SubSeq(s, 1, Len(s) - 1)) ELSE s

RECURSIVE Base32Bytes(_, _, _)
Base32Bytes(s, value, bits) ==
  IF Len(s) = 0 THEN <<>>
  ELSE LET v == value * 32 + Base32Index(s[1])
           b == bits + 5
       IN IF b >= 8
          THEN <<(v \div (2 ^ (b - 8))) % 256>>
                 \o Base32Bytes(Tail(s), v % (2 ^ (b - 8)), b - 8)
          ELSE Base32Bytes(Tail(s), v, b)

base32Decode(input) ==
  LET s == StripPadding(input) IN
  IF \E i \in 1..Len(s) : Base32Index(s[i]) < 0
  THEN Threw("Error")
  ELSE Returned(Base32Bytes(s, 0, 0))

\* (opts.algorithm ?? "SHA-1").replace("-", "").toLowerCase()
HashName(algorithm) ==
  LET a == IF IsVal(algorithm) THEN algorithm.v ELSE "SHA-1" IN
  CASE a = "SHA-1" -> "sha1"
    [] a = "SHA-256" -> "sha256"
    [] a = "SHA-512" -> "sha512"

\* new HotpOtpAlgorithm(opts): the instance, or the error thrown.
HotpConstructor(opts) ==
  IF ~TruthyString(opts.secret) THEN Threw("OtpError")
  ELSE IF TruthyNumber(opts.digits) /\ (opts.digits.v < 4 \/ opts.digits.v > 10)
  THEN Threw("OtpError")
  ELSE LET counter == BigInt(opts.counter)
           key == base32Decode(opts.secret.v)
       IN IF counter.threw THEN counter
          ELSE IF key.threw THEN Threw("OtpError")
          ELSE Returned([opts |-> opts,
                         digits |-> IF IsVal(opts.digits) THEN opts.digits.v ELSE 6,
                         algorithm |-> HashName(opts.algorithm),
                         counter |-> counter.value,
                         secretKey |-> key.value])

\* The secret of the RFC 4226 test vectors,
\* "GEZDGNBVGY3TQOJQGEZDGNBVGY3TQOJQ", and the key it decodes to.
Rfc4226Secret ==
  <<71, 69, 90, 68, 71, 78, 66, 86, 71, 89, 51, 84, 81, 79, 74, 81,
    71, 69, 90, 68, 71, 78, 66, 86, 71, 89, 51, 84, 81, 79, 74, 81>>
Rfc4226Key == base32Decode(Rfc4226Secret).value

BigOne == Big(FALSE, <<1>>)

\* crypto.createHmac(algorithm, key).update(buf).digest(): a fixed function of
\* (algorithm, key, message) whose value has the hash's digest length.  For
\* SHA-1 under the RFC 4226 key and the counters 0 and 1 it is the HMAC-SHA-1
\* value RFC 4226, Appendix D, lists for that count.  Elsewhere the model
\* takes it from a family of functions indexed by `seed`; each maps its input
\* to one of the digests below, cycled to the digest length (the third and
\* fourth are those two values of Appendix D).
DigestLength(algorithm) ==
  CASE algorithm = "sha1" -> 20
    [] algorithm = "sha256" -> 32
    [] algorithm = "sha512" -> 64

DigestBases ==
  << [i \in 1..20 |-> 0],
     [i \in 1..20 |-> 255],
     <<204, 147, 207, 24, 80, 141, 148, 147, 76, 100,
       182, 93, 139, 167, 102, 127, 183, 205, 228, 176>>,
     <<117, 164, 138, 25, 212, 203, 225, 0, 100, 78,
       138, 193, 57, 126, 234, 116, 122, 45, 51, 171>> >>

RECURSIVE SumBytes(_)
SumBytes(s) == IF Len(s) = 0 THEN 0 ELSE s[1] + SumBytes(Tail(s))

\* HMAC-SHA-1 under the RFC 4226 key of the encoded counters 0 and 1.
HmacSha1OfCounter == <<DigestBases[3], DigestBases[4]>>

HmacDigest(seed, algorithm, key, message) ==
  IF algorithm = "sha1" /\ key = Rfc4226Key /\ message = writeBigUInt64BE(BigZero).value
  THEN HmacSha1OfCounter[1]
  ELSE IF algorithm = "sha1" /\ key = Rfc4226Key /\ message = writeBigUInt64BE(BigOne).value
  THEN HmacSha1OfCounter[2]
  ELSE LET n == DigestLength(algorithm)
           k == ((seed + n + SumBytes(key) + SumBytes(message)) % Len(DigestBases)) + 1
       IN [i \in 1..n |-> DigestBases[k][((i - 1) % 20) + 1]]

\* (an offset taken from the low 5 bits, `& 0x1f`)
TruncationOffsetFiveBits(hmac) == hmac[Len(hmac)] % 32

\* hmac[hmac.length - 1] & 0x0f
TruncationOffset(hmac) == hmac[Len(hmac)] % 16

\* hmac.readUInt32BE(offset) & 0x7fffffff: the four bytes at offset, most
\* significant first, without the top bit.
Truncate31(hmac, offset) ==
  (hmac[offset + 1] % 128) * 16777216 + hmac[offset + 2] * 65536
    + hmac[offset + 3] * 256 + hmac[offset + 4]

\* x % 10 ** digits for 0 <= x < 2^31; 10 ** digits is above x from 10 digits on.
ModPow10(x, digits) == IF digits >= 10 THEN x ELSE x % (10 ^ digits)

\* Number.prototype.toString() of an integer >= 0.
RECURSIVE NumberToString(_)
NumberToString(n) == IF n < 10 THEN <<48 + n>> ELSE NumberToString(n \div 10) \o <<48 + (n % 10)>>

\* String.prototype.padStart(targetLength, "0")
PadStart(s, targetLength) ==
  IF Len(s) >= targetLength THEN s
  ELSE [i \in 1..(targetLength - Len(s)) |-> 48] \o s

\* (a generate() that takes the stored counter when the argument is falsy,
\* `movingFactor || this.counter`)
MovingFactorUnlessZero(inst, movingFactor) ==
  IF IsVal(movingFactor) /\ movingFactor.v # BigZero THEN movingFactor.v ELSE inst.counter

\* The counter generate() uses: movingFactor, defaulted to this.counter when
\* the argument is undefined.
MovingFactor(inst, movingFactor) ==
  IF IsVal(movingFactor) THEN movingFactor.v ELSE inst.counter

\* (a generate() that decodes and uses its secret argument when one is given)
HmacKeyFromArgument(inst, secret) ==
  IF IsVal(secret) THEN base32Decode(secret.v).value ELSE inst.secretKey

\* The key generate() gives to the keyed hash (the secret argument is unused).
HmacKey(inst, secret) == inst.secretKey

\* generate(secret, movingFactor): the code returned (value), with the encoded
\* counter (buf), the offset and the truncated value it was computed from.
\* readUInt32BE throws a RangeError when the 4 bytes are not all inside hmac.
HotpGenerateResult(seed, inst, secret, movingFactor) ==
  LET buf == writeBigUInt64BE(MovingFactor(inst, movingFactor)) IN
  IF buf.threw THEN buf
  ELSE LET hmac == HmacDigest(seed, inst.algorithm, HmacKey(inst, secret), buf.value)
           offset == TruncationOffset(hmac)
       IN IF offset + 4 > Len(hmac) THEN Threw("RangeError")
          ELSE LET binary == ModPow10(Truncate31(hmac, offset), inst.digits) IN
               [threw |-> FALSE, value |-> PadStart(NumberToString(binary), inst.digits),
                buf |-> buf.value, offset |-> offset,
                truncated |-> Truncate31(hmac, offset)]

\* (a verify() that compares the candidate with opts.expected, the way the
\* lines commented out in the source would)
HotpVerifyCompares(input, secret, expected) ==
  IF ~TruthyString(expected) THEN Returned(FALSE)
  ELSE LET eq == timingSafeEqual(BufferFrom(input.v), BufferFrom(expected.v)) IN
       IF eq.threw THEN Returned(FALSE) ELSE eq

\* verify(input, secret, opts): the placeholder, `return false`.
HotpVerifyResult(input, secret, expected) == Returned(FALSE)

-----------------------------------------------------------------------------
(* The program: instances are constructed, then called *)

\* A variable that `new` is to bind: not yet bound, never bound because the
\* constructor threw, or bound to the instance.  For the Random generator
\* `args` keeps the argument of the constructor call (a HOTP instance keeps
\* it itself, as opts).
Unbound == [state |-> "unbound"]
BindRandom(args, r) ==
  IF r.threw THEN [state |-> "threw"]
  ELSE [state |-> "live", args |-> args, inst |-> r.value]
BindHotp(r) ==
  IF r.threw THEN [state |-> "threw"] ELSE [state |-> "live", inst |-> r.value]

IsLive(slot) == slot.state = "live"

HotpIds == {1, 2}
NotCalled == [called |-> FALSE, overridden |-> FALSE]

\* (a generate() that moves the stored counter on after use)
HotpAfterCallCounterMoved(inst) ==
  [inst EXCEPT !.counter = IF @ = BigZero THEN Big258 ELSE BigZero]

\* The instance after a call of generate() or verify(): no field is assigned.
RandomAfterCall(inst) == inst
HotpAfterCall(inst) == inst

(* Inputs *)

CustomXyz == <<120, 121, 122>>     \* "xyz"

RandomOptionsInputs ==
  [length : {Absent, Undefined} \cup {Val(n) : n \in -1..MaxLength},
   charset : {Absent} \cup
             {Val(c) : c \in {"numeric", "alphabetic", "alphanumeric", "hex",
                              "custom", "ascii-printable"}},
   customCharset : {Absent, Undefined, Val(<<>>), Val(CustomXyz)}]

RandomBytesOf(n) == [1..n -> RandomByteValues]

\* "", "1", "2", a high surrogate on its own (U+D800), and U+FFFD
OtpInputs == {Val(<<>>), Val(<<49>>), Val(<<50>>), Val(<<55296>>), Val(<<65533>>)}

ExpiresAtInputs == {Absent} \cup {Val(t) : t \in 0..MaxExpiresAt}

SecretAA == <<65, 65>>     \* "AA": the key byte 00
Secret77 == <<55, 55>>     \* "77": the key byte FF

HotpOptionsInputs ==
  [secret : {Undefined, Val(<<>>), Val(<<35>>), Val(SecretAA), Val(Secret77)},
   counter : {Val(BigMinusOne), Val(BigZero), Val(Big258),
              Val(BigMaxUInt64), Val(BigTwoTo64)},
   digits : {Absent} \cup {Val(d) : d \in -1..MaxDigitsInput},
   algorithm : {Absent, Val("SHA-1"), Val("SHA-256"), Val("SHA-512")}]

SecretArguments == {Undefined, Val(Secret77)}
MovingFactorArguments == {Undefined, Val(Big258)}

(* Actions of the Random generator *)

NewRandomWith(options) ==
  /\ random.state = "unbound"
  /\ LET r == RandomConstructor(options) IN
       /\ random' = BindRandom(options, r)
       /\ last' = [op |-> "new Random", options |-> options, result |-> r]
  /\ UNCHANGED <<hotp, out, now, hmacSeed>>

RandomGenerateCall ==
  /\ IsLive(random)
  /\ \E randomBytes \in RandomBytesOf(RandomByteCount(random.inst)) :
       last' = [op |-> "Random.generate",
                result |-> RandomGenerateResult(random.inst, randomBytes)]
  /\ random' = [random EXCEPT !.inst = RandomAfterCall(@)]
  /\ UNCHANGED <<hotp, out, now, hmacSeed>>

RandomVerifyWith(userOtp, expectedOtp, expiresAt) ==
  /\ IsLive(random)
  /\ last' = [op |-> "Random.verify", userOtp |-> userOtp, expectedOtp |-> expectedOtp,
              expiresAt |-> expiresAt, at |-> now,
              result |-> RandomVerifyResult(userOtp, expectedOtp, expiresAt, now)]
  /\ random' = [random EXCEPT !.inst = RandomAfterCall(@)]
  /\ UNCHANGED <<hotp, out, now, hmacSeed>>

\* Date.now() only advances.
Tick ==
  /\ now < MaxNow
  /\ now' = now + 1
  /\ UNCHANGED <<random, hotp, out, last, hmacSeed>>

(* Actions of the HOTP generator *)

NewHotpWith(i, opts) ==
  /\ hotp[i].state = "unbound"
  /\ LET r == HotpConstructor(opts) IN
       /\ hotp' = [hotp EXCEPT ![i] = BindHotp(r)]
       /\ last' = [op |-> "new Hotp", id |-> i, opts |-> opts, result |-> r]
  /\ UNCHANGED <<random, out, now, hmacSeed>>

HotpGenerateWith(i, secret, movingFactor) ==
  /\ IsLive(hotp[i])
  /\ out' = [out EXCEPT ![i] =
       [called |-> TRUE, overridden |-> @.overridden \/ IsVal(movingFactor),
        secret |-> secret, movingFactor |-> movingFactor,
        result |-> HotpGenerateResult(hmacSeed, hotp[i].inst, secret, movingFactor)]]
  /\ last' = [op |-> "Hotp.generate", id |-> i]
  /\ hotp' = [hotp EXCEPT ![i].inst = HotpAfterCall(@)]
  /\ UNCHANGED <<random, now, hmacSeed>>

\* verify() is called with some code, or with the code generate() returned last.
HotpVerifyInputs(i) ==
  {Val(<<49, 50, 51, 52, 53, 54>>)} \cup
  (IF out[i].called /\ ~out[i].result.threw THEN {Val(out[i].result.value)} ELSE {})

HotpVerifyWith(i, input, secret, expected) ==
  /\ IsLive(hotp[i])
  /\ last' = [op |-> "Hotp.verify", id |-> i, input |-> input, expected |-> expected,
              result |-> HotpVerifyResult(input, secret, expected)]
  /\ hotp' = [hotp EXCEPT ![i].inst = HotpAfterCall(@)]
  /\ UNCHANGED <<random, out, now, hmacSeed>>

-----------------------------------------------------------------------------
(* Specifications *)

InitCalls ==
  /\ random = Unbound
  /\ hotp = [i \in HotpIds |-> Unbound]
  /\ out = [i \in HotpIds |-> NotCalled]
  /\ last = [op |-> "none"]
  /\ now = 1

\* One Random generator, every option the constructor can be given; each
\* code generated is verified against itself and against another code.
NewRandom == \E options \in RandomOptionsInputs : NewRandomWith(options)
RandomVerifyGenerated ==
  /\ last.op = "Random.generate" /\ ~last.result.threw
  /\ \E expectedOtp \in {Val(last.result.value), Val(<<49>>)} :
       RandomVerifyWith(Val(last.result.value), expectedOtp, Absent)

InitRandom == InitCalls /\ hmacSeed = 0
NextRandom == NewRandom \/ RandomGenerateCall \/ RandomVerifyGenerated
SpecRandom == InitRandom /\ [][NextRandom]_vars

\* One Random generator with numeric codes, every argument of verify() as
\* the clock advances.
NewRandomNumeric ==
  \E options \in [length : {Absent, Val(1)}, charset : {Absent, Val("numeric")},
                  customCharset : {Absent}] : NewRandomWith(options)
RandomVerifyCall ==
  \E userOtp \in OtpInputs, expectedOtp \in OtpInputs, expiresAt \in ExpiresAtInputs :
    RandomVerifyWith(userOtp, expectedOtp, expiresAt)

NextVerify == NewRandomNumeric \/ RandomGenerateCall \/ RandomVerifyCall \/ Tick
SpecVerify == InitRandom /\ [][NextVerify]_vars

\* One HOTP generator, every option the constructor can be given.
NewHotp == \E opts \in HotpOptionsInputs : NewHotpWith(1, opts)
HotpGenerateCall ==
  \E secret \in SecretArguments, movingFactor \in MovingFactorArguments :
    HotpGenerateWith(1, secret, movingFactor)
HotpVerifyCall ==
  \E input \in HotpVerifyInputs(1), secret \in SecretArguments :
    \E expected \in {Absent, input} : HotpVerifyWith(1, input, secret, expected)

InitHotp == InitCalls /\ hmacSeed \in 0..(Len(DigestBases) - 1)
NextHotp == NewHotp \/ HotpGenerateCall \/ HotpVerifyCall
SpecHotp == InitHotp /\ [][NextHotp]_vars

\* Two HOTP generators constructed independently of each other.
PairOptions ==
  {[secret |-> s, counter |-> c, digits |-> v.digits, algorithm |-> v.algorithm] :
     s \in {Val(SecretAA), Val(Secret77)}, c \in {Val(BigZero), Val(Big258)},
     v \in {[digits |-> Absent, algorithm |-> Absent],
            [digits |-> Val(6), algorithm |-> Val("SHA-1")],
            [digits |-> Val(8), algorithm |-> Val("SHA-256")]}}

NewHotpOfPair == \E i \in HotpIds, opts \in PairOptions : NewHotpWith(i, opts)
HotpGenerateOfPair ==
  \E i \in HotpIds, secret \in SecretArguments, movingFactor \in MovingFactorArguments :
    HotpGenerateWith(i, secret, movingFactor)

NextPair == NewHotpOfPair \/ HotpGenerateOfPair
SpecPair == InitHotp /\ [][NextPair]_vars

\* One HOTP generator set up the way the RFC 4226 test vectors are, or with
\* another secret, number of digits or hash; generate() is called with no
\* counter argument and with the counters 0 and 1.
Rfc4226Options ==
  [secret : {Val(Rfc4226Secret), Val(Secret77)},
   counter : {Val(BigZero), Val(BigOne)},
   digits : {Absent, Val(0), Val(6), Val(8), Val(10)},
   algorithm : {Absent, Val("SHA-1"), Val("SHA-256"), Val("SHA-512")}]

Rfc4226MovingFactors == {Undefined, Val(BigZero), Val(BigOne)}

NewHotpRfc4226 == \E opts \in Rfc4226Options : NewHotpWith(1, opts)
HotpGenerateRfc4226 ==
  \E secret \in SecretArguments, movingFactor \in Rfc4226MovingFactors :
    HotpGenerateWith(1, secret, movingFactor)

NextRfc4226 == NewHotpRfc4226 \/ HotpGenerateRfc4226
SpecRfc4226 == InitHotp /\ [][NextRfc4226]_vars

\* Callers that share one Random generator and one HOTP generator and call
\* them in any order.
SharedRandomOptions ==
  [length : {Val(1), Val(2)}, charset : {Absent, Val("custom")},
   customCharset : {Absent, Val(CustomXyz)}]

NewRandomShared == \E options \in SharedRandomOptions : NewRandomWith(options)
NewHotpShared == \E opts \in PairOptions : NewHotpWith(1, opts)

Init == InitHotp
Next ==
  \/ NewRandomShared \/ RandomGenerateCall \/ RandomVerifyGenerated
  \/ NewHotpShared \/ HotpGenerateCall \/ HotpVerifyCall
  \/ Tick
Spec == Init /\ [][Next]_vars

-----------------------------------------------------------------------------
(* Properties of the Random generator *)

\* The alphabet of each charset kind, as a set of code units.
DigitCodes == 48..57
LetterCodes == (65..90) \cup (97..122)
AlphabetOf(charset, customCharset) ==
  CASE charset = "numeric" -> DigitCodes
    [] charset = "alphabetic" -> LetterCodes
    [] charset = "alphanumeric" -> DigitCodes \cup LetterCodes
    [] charset = "hex" -> DigitCodes \cup (97..102)
    [] charset = "custom" -> {customCharset.v[i] : i \in 1..Len(customCharset.v)}

SupportedCharsets == {"numeric", "alphabetic", "alphanumeric", "hex", "custom"}

\* The charset kind and the length a constructor argument asks for.
CharsetAsked(args) == IF args.charset = Absent THEN Val("numeric") ELSE args.charset
LengthAsked(args) == IF IsVal(args.length) THEN args.length.v ELSE 6

\* C1: generate() of a Random generator constructed with length > 0 (or no
\* length: then 6) and a supported charset kind returns exactly `length`
\* symbols, each one a member of the alphabet of that kind; and every byte
\* value 0..255 the random source can return maps to a symbol of it.
GenerateHasLengthAndAlphabet ==
  (/\ last.op = "Random.generate"
   /\ IsLive(random)
   /\ LengthAsked(random.args) > 0
   /\ IsVal(CharsetAsked(random.args))
   /\ CharsetAsked(random.args).v \in SupportedCharsets)
  => /\ ~last.result.threw
     /\ Len(last.result.value) = LengthAsked(random.args)
     /\ \A i \in 1..Len(last.result.value) :
          last.result.value[i] \in
            AlphabetOf(CharsetAsked(random.args).v, random.args.customCharset)
     /\ \A byte \in 0..255 :
          RandomGenerateResult(random.inst, <<byte>>).value[1] \in
            AlphabetOf(CharsetAsked(random.args).v, random.args.customCharset)

\* C1 witness: a generator made without a length, with the alphanumeric
\* charset, returned six symbols, one of them the last of the alphabet ("Z").
GenerateDefaultLengthReached ==
  /\ last.op = "Random.generate"
  /\ IsLive(random)
  /\ ~IsVal(random.args.length)
  /\ random.args.charset = Val("alphanumeric")
  /\ ~last.result.threw
  /\ Len(last.result.value) = 6
  /\ \E i \in 1..6 : last.result.value[i] = 90

BothNonEmpty(userOtp, expectedOtp) == Len(userOtp.v) > 0 /\ Len(expectedOtp.v) > 0

\* C2: verify() returns a boolean and never throws; it is false when either
\* string is empty; and for non-empty strings, with no expiresAt or with the
\* clock not past expiresAt, it is true exactly when candidate = expected.
VerifyIsEquality ==
  last.op = "Random.verify" =>
    /\ ~last.result.threw
    /\ last.result.value \in BOOLEAN
    /\ ~BothNonEmpty(last.userOtp, last.expectedOtp) => last.result.value = FALSE
    /\ (/\ BothNonEmpty(last.userOtp, last.expectedOtp)
        /\ (~IsVal(last.expiresAt) \/ last.at <= last.expiresAt.v))
       => last.result.value = (last.userOtp.v = last.expectedOtp.v)

\* C3: with an expiresAt supplied (any number, 0 included) and the clock past
\* it, verify() returns false whatever the two strings are.
ExpiredIsRejected ==
  (last.op = "Random.verify" /\ IsVal(last.expiresAt) /\ last.at > last.expiresAt.v)
  => last.result.value = FALSE

\* C4: construction fails for length <= 0, for charset "custom" without a
\* non-empty customCharset, and for a customCharset supplied with a charset
\* that is not "custom"; an instance that is returned has a customCharset
\* exactly when its charset is "custom".
RandomConstructionRejects ==
  last.op = "new Random" =>
    LET args == last.options
        custom == CharsetAsked(args) = Val("custom")
    IN /\ (IsVal(args.length) /\ args.length.v <= 0) => last.result.threw
       /\ (custom /\ (~IsVal(args.customCharset) \/ Len(args.customCharset.v) = 0))
            => last.result.threw
       /\ (~custom /\ IsVal(args.customCharset)) => last.result.threw
       /\ ~last.result.threw =>
            (IsVal(last.result.value.options.customCharset)
               <=> last.result.value.options.charset = Val("custom"))

\* C5: generate() of a Random generator whose construction succeeded returns
\* a code: it never throws.
GenerateNeverThrows ==
  last.op = "Random.generate" => ~last.result.threw

-----------------------------------------------------------------------------
(* Properties of the HOTP generator *)

Base32Codes == (65..90) \cup (50..55)

\* Text made of Base32 characters, with "=" padding at its end.
IsBase32Text(s) ==
  \E n \in 0..Len(s) :
    /\ \A i \in 1..n : s[i] \in Base32Codes
    /\ \A i \in (n + 1)..Len(s) : s[i] = 61

\* C6: construction fails with an OtpError when the secret is absent or
\* empty, when it is not Base32 text, and when digits is supplied outside
\* [4,10]; an instance that is returned has digits in [4,10], and 6 when
\* digits was not supplied.
HotpConstructionRejects ==
  last.op = "new Hotp" =>
    LET opts == last.opts
        rejected == last.result.threw /\ last.result.error = "OtpError"
    IN /\ (~IsVal(opts.secret) \/ Len(opts.secret.v) = 0) => rejected
       /\ (IsVal(opts.secret) /\ ~IsBase32Text(opts.secret.v)) => rejected
       /\ (IsVal(opts.digits) /\ (opts.digits.v < 4 \/ opts.digits.v > 10)) => rejected
       /\ ~last.result.threw =>
            /\ last.result.value.digits \in 4..10
            /\ ~IsVal(opts.digits) => last.result.value.digits = 6

RECURSIVE DecimalValue(_)
DecimalValue(s) ==
  IF Len(s) = 0 THEN 0 ELSE DecimalValue(SubSeq(s, 1, Len(s) - 1)) * 10 + (s[Len(s)] - 48)

\* C7: the code generate() of a constructed HOTP generator returns has
\* exactly `digits` characters, all decimal digits, that read as the
\* truncated value modulo 10^digits (the truncated value itself once
\* 10^digits is above 2^31).
HotpCodeHasDigits ==
  \A i \in HotpIds :
    (IsLive(hotp[i]) /\ out[i].called /\ ~out[i].result.threw) =>
      LET r == out[i].result
          digits == hotp[i].inst.digits
      IN /\ Len(r.value) = digits
         /\ \A k \in 1..Len(r.value) : r.value[k] \in DigitCodes
         /\ DecimalValue(r.value) =
              IF digits >= 10 THEN r.truncated ELSE r.truncated % (10 ^ digits)

\* The (secret key, counter, digits, hash) a generator was constructed with.
ConfigOf(inst) ==
  LET made == HotpConstructor(inst.opts).value IN
  <<made.secretKey, made.counter, made.digits, made.algorithm>>

\* C8: two HOTP generators constructed with the same (secret, counter,
\* digits, hash algorithm) return the same code for the same counter
\* argument, whatever calls were made before and whatever secret argument
\* each call was given.
HotpDeterministic ==
  \A i, j \in HotpIds :
    (/\ IsLive(hotp[i]) /\ IsLive(hotp[j])
     /\ out[i].called /\ out[j].called
     /\ ConfigOf(hotp[i].inst) = ConfigOf(hotp[j].inst)
     /\ out[i].movingFactor = out[j].movingFactor)
    => out[i].result = out[j].result

\* C8 witness: two generators given the same configuration in different
\* words (digits and hash left out, or spelled out), called with different
\* secret arguments, returned the same code.
HotpSameCodeReached ==
  /\ IsLive(hotp[1]) /\ IsLive(hotp[2])
  /\ hotp[1].inst.opts # hotp[2].inst.opts
  /\ ConfigOf(hotp[1].inst) = ConfigOf(hotp[2].inst)
  /\ out[1].called /\ out[2].called
  /\ out[1].overridden
  /\ out[1].movingFactor = Undefined /\ out[2].movingFactor = Undefined
  /\ out[1].secret # out[2].secret
  /\ ~out[1].result.threw
  /\ out[1].result.value = out[2].result.value

\* The 8 bytes that hold an unsigned 64-bit counter, most significant first.
IsBigEndianOf(buf, counter) ==
  /\ Len(buf) = 8
  /\ Len(counter.words) <= 4
  /\ \A k \in 1..4 : buf[2 * k - 1] * 256 + buf[2 * k] = WordOf(counter, 5 - k)

\* C9: no call of generate() or verify() changes an instance; and a
\* generate() with no counter argument, made after calls that had one, uses
\* the counter given at construction.
InstancesImmutable ==
  [][/\ IsLive(random) => random' = random
     /\ \A i \in HotpIds :
          /\ IsLive(hotp[i]) => hotp'[i] = hotp[i]
          /\ (/\ IsLive(hotp'[i])
              /\ out'[i].called /\ out'[i].overridden
              /\ ~IsVal(out'[i].movingFactor)
              /\ ~out'[i].result.threw)
             => IsBigEndianOf(out'[i].result.buf, hotp'[i].inst.opts.counter.v)]_vars

\* C9 witness: both shared instances are in use, and the HOTP generator was
\* called without a counter argument after a call that had one.
SharedInstancesCalled ==
  /\ IsLive(random) /\ IsLive(hotp[1])
  /\ last.op = "Random.verify"
  /\ out[1].called /\ out[1].overridden
  /\ ~IsVal(out[1].movingFactor)
  /\ ~out[1].result.threw

\* C10: generate() with no counter argument never throws, and encodes the
\* counter the constructor accepted as 8 bytes, most significant first.
HotpDefaultCounterEncoded ==
  \A i \in HotpIds :
    (IsLive(hotp[i]) /\ out[i].called /\ ~IsVal(out[i].movingFactor)) =>
      /\ ~out[i].result.threw
      /\ IsBigEndianOf(out[i].result.buf, hotp[i].inst.opts.counter.v)

\* C11: verify() of a HOTP generator returns false for every candidate,
\* secret argument and options, also when the candidate is the code
\* generate() returned last on the same instance and options.expected is
\* that same code; it never throws and never returns true.
HotpVerifyAlwaysFalse ==
  last.op = "Hotp.verify" =>
    /\ ~last.result.threw
    /\ last.result.value = FALSE

\* C11 witness: verify() was given the code generate() returned last on the
\* same instance, as the candidate and as options.expected, and returned false.
HotpVerifyOfGeneratedCodeReached ==
  /\ last.op = "Hotp.verify"
  /\ IsLive(hotp[last.id])
  /\ out[last.id].called /\ ~out[last.id].result.threw
  /\ last.input = Val(out[last.id].result.value)
  /\ last.expected = last.input
  /\ ~last.result.threw
  /\ last.result.value = FALSE

\* The counter a call of generate() is to use: its counter argument when one
\* was given, else the counter the constructor was given.
CounterAsked(i) ==
  IF IsVal(out[i].movingFactor) THEN out[i].movingFactor.v
  ELSE hotp[i].inst.opts.counter.v

\* The digest the keyed hash returns for the key the secret of instance i
\* decodes to, the hash it was constructed with and the encoded counter.
DigestOf(i) ==
  HmacDigest(hmacSeed, HashName(hotp[i].inst.opts.algorithm),
             base32Decode(hotp[i].inst.opts.secret.v).value, out[i].result.buf)

\* x is the 4 bytes of digest from `offset` on (counted from 0), read most
\* significant byte first, with the most significant bit cleared.
IsTruncationOf(x, digest, offset) ==
  /\ x >= 0
  /\ x \div 16777216 \in {digest[offset + 1], digest[offset + 1] - 128}
  /\ x \div 16777216 < 128
  /\ (x \div 65536) % 256 = digest[offset + 2]
  /\ (x \div 256) % 256 = digest[offset + 3]
  /\ x % 256 = digest[offset + 4]

\* "755224" and "287082"
Rfc4226Code0 == <<55, 53, 53, 50, 50, 52>>
Rfc4226Code1 == <<50, 56, 55, 48, 56, 50>>

\* C12: a generate() that returns follows the steps of RFC 4226 for the
\* digest the keyed hash returned: the counter encoded is the counter
\* argument when one is given (0 included) and the stored counter otherwise;
\* the offset is the low 4 bits of the last byte of the digest; the value is
\* the 4 bytes at the offset, most significant first, with the top bit
\* cleared; the code reads as that value mod 10^digits.  With the secret
\* "GEZDGNBVGY3TQOJQGEZDGNBVGY3TQOJQ", 6 digits and SHA-1 the code is
\* "755224" for counter 0 and "287082" for counter 1.
HotpFollowsRfc4226 ==
  \A i \in HotpIds :
    (IsLive(hotp[i]) /\ out[i].called /\ ~out[i].result.threw) =>
      LET r == out[i].result
          opts == hotp[i].inst.opts
          digest == DigestOf(i)
          digits == IF IsVal(opts.digits) THEN opts.digits.v ELSE 6
      IN /\ IsBigEndianOf(r.buf, CounterAsked(i))
         /\ r.offset \in 0..15
         /\ (digest[Len(digest)] - r.offset) % 16 = 0
         /\ IsTruncationOf(r.truncated, digest, r.offset)
         /\ DecimalValue(r.value) =
              IF digits >= 10 THEN r.truncated ELSE r.truncated % (10 ^ digits)
         /\ (/\ opts.secret = Val(Rfc4226Secret)
             /\ digits = 6
             /\ HashName(opts.algorithm) = "sha1")
            => /\ CounterAsked(i) = BigZero => r.value = Rfc4226Code0
               /\ CounterAsked(i) = BigOne => r.value = Rfc4226Code1

\* C12 witness: a generator with the RFC 4226 secret, 6 digits, SHA-1 and the
\* stored counter 1 was called with the counter argument 0 and returned
\* "755224".
HotpRfc4226VectorReached ==
  /\ IsLive(hotp[1])
  /\ hotp[1].inst.opts.secret = Val(Rfc4226Secret)
  /\ hotp[1].inst.opts.counter = Val(BigOne)
  /\ hotp[1].inst.opts.digits = Val(6)
  /\ hotp[1].inst.opts.algorithm = Val("SHA-1")
  /\ out[1].called
  /\ out[1].movingFactor = Val(BigZero)
  /\ ~out[1].result.threw
  /\ out[1].result.value = Rfc4226Code0

HashNames == {"sha1", "sha256", "sha512"}

\* For every last byte a digest of each hash can have, the offset is in
\* 0..15 and the 4 bytes read from it end inside the digest.
OffsetInsideEveryDigest ==
  \A algorithm \in HashNames, lastByte \in 0..255 :
    LET n == DigestLength(algorithm)
        digest == [k \in 1..n |-> IF k = n THEN lastByte ELSE 0]
        offset == TruncationOffset(digest)
    IN offset \in 0..15 /\ offset + 4 <= n

\* For every first byte and the least and greatest remaining bytes that can
\* stand at an offset, the masked value is in 0..2^31 - 1.
MaskedValueIn31Bits ==
  \A offset \in 0..15, first \in 0..255, rest \in {0, 255} :
    LET digest == [k \in 1..20 |-> IF k = offset + 1 THEN first
                                    ELSE IF k \in (offset + 2)..(offset + 4) THEN rest
                                    ELSE 0]
    IN Truncate31(digest, offset) \in 0..2147483647

\* C13: for SHA-1, SHA-256 and SHA-512 (digests of 20, 32, 64 bytes) and
\* every digest value, the offset generate() computes is in 0..15 and its
\* 4-byte read ends inside the digest, and the masked value is an integer
\* in [0, 2^31 - 1]; so a generate() whose counter fits 64 bits never throws
\* at the read, and what it read from has these properties.
HotpTruncationInBounds ==
  /\ OffsetInsideEveryDigest
  /\ MaskedValueIn31Bits
  /\ \A i \in HotpIds :
       (/\ IsLive(hotp[i]) /\ out[i].called
        /\ ~writeBigUInt64BE(CounterAsked(i)).threw)
       => /\ ~out[i].result.threw
          /\ DigestLength(hotp[i].inst.algorithm) \in {20, 32, 64}
          /\ out[i].result.offset \in 0..15
          /\ out[i].result.offset + 4 <= DigestLength(hotp[i].inst.algorithm)
          /\ out[i].result.truncated \in 0..2147483647

\* C13 witness: a SHA-1 generator read the last 4 bytes the offset can reach
\* (offset 15 of a 20-byte digest), all of them FF, and got 2^31 - 1.
HotpTruncationAtEdgeReached ==
  /\ IsLive(hotp[1])
  /\ hotp[1].inst.algorithm = "sha1"
  /\ out[1].called
  /\ ~out[1].result.threw
  /\ out[1].result.offset = 15
  /\ out[1].result.truncated = 2147483647

====
